---- MODULE Spec2Model ----
(***************************************************************************)
(* source_merger.py: aggregation of the text files of a directory tree (or *)
(* of a cloned repository) into one output artifact.                       *)
(*                                                                         *)
(* Paths, extensions and names are sequences of one-character strings;     *)
(* file bytes and decoded text are sequences of integers (byte values and  *)
(* code points).  Tags ("python", "HTML", ...) are plain strings.          *)
(***************************************************************************)
EXTENDS Integers, Sequences, FiniteSets, TLC

(***************************************************************************)
(* Bounds of the model.                                                    *)
(***************************************************************************)
\* Largest number of files present in the filesystem snapshot of a run.
MaxFiles == 2
\* Largest number of files another process removes while a run is going on.
MaxFsChanges == 1

(***************************************************************************)
(* Python str / list / os.path primitives the program calls.               *)
(***************************************************************************)
\* str.endswith
EndsWith(s, suf) ==
    /\ Len(suf) <= Len(s)
    /\ SubSeq(s, Len(s) - Len(suf) + 1, Len(s)) = suf

\* str.startswith
StartsWith(s, pre) ==
    /\ Len(pre) <= Len(s)
    /\ SubSeq(s, 1, Len(pre)) = pre

\* `sub in s` on strings
Contains(s, sub) ==
    \E i \in 0..(Len(s) - Len(sub)) : SubSeq(s, i + 1, i + Len(sub)) = sub

\* str.rfind, 1-based; 0 when the character does not occur
RFind(s, c) ==
    LET hits == {i \in 1..Len(s) : s[i] = c}
    IN  IF hits = {} THEN 0 ELSE CHOOSE i \in hits : \A j \in hits : j <= i

\* str.replace(old, new), leftmost non-overlapping occurrences (old non-empty)
RECURSIVE Replace(_, _, _)
Replace(s, old, new) ==
    IF Len(s) < Len(old) THEN s
    ELSE IF SubSeq(s, 1, Len(old)) = old
         THEN new \o Replace(SubSeq(s, Len(old) + 1, Len(s)), old, new)
         ELSE <<s[1]>> \o Replace(Tail(s), old, new)

\* ''.join(list of strings)
RECURSIVE Join(_)
Join(parts) ==
    IF parts = <<>> THEN <<>> ELSE Head(parts) \o Join(Tail(parts))

\* x in list
InList(x, list) == \E i \in 1..Len(list) : list[i] = x

UpperChars ==
    <<"A", "B", "C", "D", "E", "F", "G", "H", "I", "J", "K", "L", "M",
      "N", "O", "P", "Q", "R", "S", "T", "U", "V", "W", "X", "Y", "Z">>

LowerChars ==
    <<"a", "b", "c", "d", "e", "f", "g", "h", "i", "j", "k", "l", "m",
      "n", "o", "p", "q", "r", "s", "t", "u", "v", "w", "x", "y", "z">>

\* str.lower() on a path
LowerStr(s) ==
    [i \in 1..Len(s) |->
        IF \E k \in 1..26 : UpperChars[k] = s[i]
        THEN LowerChars[CHOOSE k \in 1..26 : UpperChars[k] = s[i]]
        ELSE s[i]]

\* str.lower() on decoded text (code points)
LowerText(t) ==
    [i \in 1..Len(t) |-> IF t[i] >= 65 /\ t[i] <= 90 THEN t[i] + 32 ELSE t[i]]

\* os.path.basename
basename(p) == SubSeq(p, RFind(p, "/") + 1, Len(p))

\* os.path.dirname
dirname(p) == SubSeq(p, 1, RFind(p, "/") - 1)

\* os.path.join(a, b) for a relative b
join(a, b) == a \o <<"/">> \o b

\* os.path.splitext(p)[-1]: from the last dot of the last component, unless
\* that component consists of leading dots only up to there
splitext(p) ==
    LET sep == RFind(p, "/")
        dot == RFind(p, ".")
    IN  IF dot > sep /\ \E i \in (sep + 1)..(dot - 1) : p[i] # "."
        THEN SubSeq(p, dot, Len(p))
        ELSE <<>>

\* os.path.relpath(p, base) for relative paths p and a one-component base:
\* a path below base loses the prefix, any other path is reached through ".."
relpath(p, base) ==
    IF StartsWith(p, base \o <<"/">>)
    THEN SubSeq(p, Len(base) + 2, Len(p))
    ELSE <<".", ".", "/">> \o p

(***************************************************************************)
(* Text decoding, as open(..., encoding=..., errors=...) does it.          *)
(* The bytes of the modelled files are ASCII, 0xFE or 0xFF; UTF-8 accepts  *)
(* no sequence containing 0xFE or 0xFF.                                    *)
(***************************************************************************)
\* whether a strict UTF-8 read raises UnicodeDecodeError
Utf8Raises(bytes) == \E i \in 1..Len(bytes) : bytes[i] >= 128

\* encoding='utf-8', errors='ignore': undecodable bytes are skipped
Utf8Ignore(bytes) == SelectSeq(bytes, LAMBDA b : b < 128)

\* the 16-bit units of a UTF-16 stream; a trailing odd byte is undecodable
RECURSIVE Utf16Units(_, _)
Utf16Units(bytes, bigEndian) ==
    IF Len(bytes) < 2 THEN <<>>
    ELSE <<IF bigEndian THEN bytes[1] * 256 + bytes[2]
                        ELSE bytes[2] * 256 + bytes[1]>>
         \o Utf16Units(SubSeq(bytes, 3, Len(bytes)), bigEndian)

\* surrogate pairs combine, lone surrogates are skipped (errors='ignore')
RECURSIVE Utf16Combine(_)
Utf16Combine(units) ==
    IF units = <<>> THEN <<>>
    ELSE LET u == units[1]
         IN  IF u >= 55296 /\ u <= 56319
             THEN IF Len(units) >= 2 /\ units[2] >= 56320 /\ units[2] <= 57343
                  THEN <<65536 + (u - 55296) * 1024 + (units[2] - 56320)>>
                       \o Utf16Combine(SubSeq(units, 3, Len(units)))
                  ELSE Utf16Combine(Tail(units))
             ELSE IF u >= 56320 /\ u <= 57343
                  THEN Utf16Combine(Tail(units))
                  ELSE <<u>> \o Utf16Combine(Tail(units))

\* encoding='utf-16', errors='ignore': a byte-order mark selects the byte
\* order and is consumed; without one the order is little-endian
Utf16Ignore(bytes) ==
    IF StartsWith(bytes, <<255, 254>>)
    THEN Utf16Combine(Utf16Units(SubSeq(bytes, 3, Len(bytes)), FALSE))
    ELSE IF StartsWith(bytes, <<254, 255>>)
         THEN Utf16Combine(Utf16Units(SubSeq(bytes, 3, Len(bytes)), TRUE))
         ELSE Utf16Combine(Utf16Units(bytes, FALSE))

\* text mode with newline=None: "\r\n" and "\r" are read as "\n"
UniversalNewlines(text) == Replace(Replace(text, <<13, 10>>, <<10>>), <<13>>, <<10>>)

\* f.readlines(): the lines of the text, each keeping its "\n"
RECURSIVE readlines(_)
readlines(text) ==
    IF text = <<>> THEN <<>>
    ELSE LET nl == {i \in 1..Len(text) : text[i] = 10}
         IN  IF nl = {} THEN <<text>>
             ELSE LET k == CHOOSE i \in nl : \A j \in nl : i <= j
                  IN  <<SubSeq(text, 1, k)>>
                      \o readlines(SubSeq(text, k + 1, Len(text)))

(***************************************************************************)
(* Program constants.                                                      *)
(***************************************************************************)
\* file_types, in the insertion order of the dict literal
file_types ==
    << <<<<".", "h", "t", "m", "l">>, "HTML">>,
       <<<<".", "c", "s", "s">>, "CSS">>,
       <<<<".", "j", "s">>, "jsx">>,
       <<<<".", "e", "j", "s">>, "ejs">>,
       <<<<".", "m", "d">>, "markdown">>,
       <<<<".", "p", "y">>, "python">>,
       <<<<".", "t", "x", "t">>, "txt">>,
       <<<<".", "c", "p", "p">>, "cpp">>,
       <<<<".", "c">>, "c">>,
       <<<<".", "h">>, "c">>,
       <<<<".", "h", "p", "p">>, "cpp">>,
       <<<<".", "j", "a", "v", "a">>, "java">>,
       <<<<".", "c", "s">>, "csharp">>,
       <<<<".", "v", "b">>, "vb">>,
       <<<<".", "v", "b", "h", "t", "m", "l">>, "vbhtml">>,
       <<<<".", "u", "i">>, "xml">>,
       <<<<".", "x", "m", "l">>, "xml">>,
       <<<<".", "j", "s", "o", "n">>, "json">>,
       <<<<".", "y", "m", "l">>, "yaml">>,
       <<<<".", "t", "s">>, "typescript">>,
       <<<<".", "b", "a", "t">>, "batch">>,
       <<<<".", "p", "s", "1">>, "powershell">> >>

\* list(file_types.keys())
file_types_keys == [i \in 1..Len(file_types) |-> file_types[i][1]]

\* the argparse defaults of main()
default_ignore_dirs ==
    << <<".", "v", "e", "n", "v">>, <<".", "v", "s", "c", "o", "d", "e">>,
       <<".", "g", "i", "t">> >>

default_ignore_files ==
    << <<"s", "o", "u", "r", "c", "e", "_", "m", "e", "r", "g", "e", "r", ".", "p", "y">>,
       <<"R", "E", "A", "D", "M", "E", ".", "m", "d">> >>

default_extensions ==
    << <<".", "h", "t", "m", "l">>, <<".", "c", "s", "s">>, <<".", "j", "s">>,
       <<".", "e", "j", "s">>, <<".", "p", "y">>, <<".", "t", "x", "t">>,
       <<".", "m", "d">> >>

\* the values of --output_format
fmt_txt == <<"t", "x", "t">>
fmt_md == <<"m", "d">>
fmt_markdown == <<"m", "a", "r", "k", "d", "o", "w", "n">>
fmt_html == <<"h", "t", "m", "l">>
fmt_pdf == <<"p", "d", "f">>

(***************************************************************************)
(* The filesystem the runs are checked on.  Every path has a fixed         *)
(* content; a snapshot is a set of at most MaxFiles of these paths.        *)
(***************************************************************************)
\* the directory the walk starts in (the clone's directory for --repo)
root == <<"r">>
\* the working directory of a --repo run, where its artifact goes
cwd == <<"o">>
\* --name
out_name == <<"o", "u", "t">>

p_x == <<"r", "/", "x", ".", "p", "y">>
p_y == <<"r", "/", "y", ".", "p", "y">>
p_about == <<"r", "/", "a", "b", "o", "u", "t", ".", "t", "x", "t">>
p_out == <<"r", "/", "o", "u", "t", ".", "t", "x", "t">>
p_z == <<"r", "/", "z", ".", "r", "s">>
p_e == <<"r", "/", "e", ".", "p", "y">>
p_readme == <<"r", "/", "R", "E", "A", "D", "M", "E", ".", "m", "d">>
p_u == <<"r", "/", "u", ".", "t", "x", "t">>
p_w == <<"r", "/", "d", "/", "w", ".", "p", "y">>
p_git == <<"r", "/", ".", "g", "i", "t", "/", "c", ".", "p", "y">>
p_extra == <<"e", "/", "o", "u", "t", ".", "t", "x", "t">>

PathUniverse ==
    {p_x, p_y, p_about, p_out, p_z, p_e, p_readme, p_u, p_w, p_git, p_extra}

\* the bytes of each file
Content(p) ==
    CASE p = p_x -> <<97>>                      \* "a"
      [] p = p_y -> <<97>>                      \* "a", a copy of x.py
      [] p = p_about -> <<98>>                  \* "b"
      [] p = p_out -> <<111>>                   \* "o", an earlier artifact
      [] p = p_z -> <<123, 125>>                \* "{}"
      [] p = p_e -> <<>>                        \* an empty file
      [] p = p_readme -> <<109>>                \* "m"
      [] p = p_u -> <<255, 254, 98, 0>>         \* "b" in UTF-16 with a BOM
      [] p = p_w -> <<97, 32, 35, 99>>          \* "a #c", x.py with a comment
      [] p = p_git -> <<97>>                    \* "a"
      [] p = p_extra -> <<113>>                 \* "q"
      [] OTHER -> <<>>

(***************************************************************************)
(* State.                                                                  *)
(***************************************************************************)
VARIABLES
    pc,           \* where the run is
    kwargs,       \* the parsed arguments, vars(args)
    fs,           \* the files present below start_dir and among --files
    repo_tree,    \* --repo: the files of the remote repository
    raising,      \* the minifier calls that raise on the texts of this run
    ignore_files, \* findFiles: ignore_files after line 217
    extensions,   \* findFiles: extensions after line 221
    all_files,    \* findFiles: the candidates, in submission order
    pending,      \* the futures as_completed has not yielded yet
    foundFiles,   \* findFiles: dict path -> contents, in insertion order
    finalFiles,   \* findFiles: dict path -> contents after deduplication
    next_file,    \* position of the rendering loop in finalFiles
    outFile,      \* the file at the output path
    logged,       \* what the run has reported
    fsChanges,    \* files removed by another process during the run
    cc_code,      \* compressCode called on its own: the argument code
    cc_type,      \* compressCode called on its own: the argument file_type
    cc_result     \* compressCode called on its own: the value returned

vars ==
    <<pc, kwargs, fs, repo_tree, raising, ignore_files, extensions, all_files,
      pending, foundFiles, finalFiles, next_file, outFile, logged, fsChanges,
      cc_code, cc_type, cc_result>>

(***************************************************************************)
(* The minifier libraries (jsmin, csscompressor, htmlmin, pyminifier).     *)
(* Their code is not part of the program; each is a whitespace or comment  *)
(* remover here, and raises when its name is in `raising`.                 *)
(***************************************************************************)
\* text without its blanks
StripBlanks(code) == SelectSeq(code, LAMBDA c : c # 32)

htmlmin(code) == StripBlanks(code)

cssmin(code) == StripBlanks(code)

jsmin(code) == StripBlanks(code)

\* "#" to the end of the line is a comment
RECURSIVE remove_comments_and_docstrings(_)
remove_comments_and_docstrings(code) ==
    IF code = <<>> THEN <<>>
    ELSE IF code[1] = 35
         THEN LET nl == {i \in 1..Len(code) : code[i] = 10}
              IN  IF nl = {} THEN <<>>
                  ELSE LET k == CHOOSE i \in nl : \A j \in nl : i <= j
                       IN  remove_comments_and_docstrings(SubSeq(code, k, Len(code)))
         ELSE <<code[1]>> \o remove_comments_and_docstrings(Tail(code))

\* a line holding nothing but its newline is dropped
remove_blank_lines(code) ==
    Join(SelectSeq(readlines(code), LAMBDA line : line # <<10>>))

reduce_operators(code) == StripBlanks(code)

\* leading blanks go
RECURSIVE dedent(_)
dedent(code) ==
    IF code # <<>> /\ code[1] = 32 THEN dedent(Tail(code)) ELSE code

\* the modelled texts define no methods and hold no brackets
fix_empty_methods(code) == code

join_multiline_pairs(code) == code

\* the six pyminifier calls of lines 185-190, in order
pymin_stages ==
    <<"remove_comments_and_docstrings", "remove_blank_lines", "reduce_operators",
      "dedent", "fix_empty_methods", "join_multiline_pairs">>

pymin_apply(stage, code) ==
    CASE stage = 1 -> remove_comments_and_docstrings(code)
      [] stage = 2 -> remove_blank_lines(code)
      [] stage = 3 -> reduce_operators(code)
      [] stage = 4 -> dedent(code)
      [] stage = 5 -> fix_empty_methods(code)
      [] OTHER -> join_multiline_pairs(code)

\* lines 185-190 inside the try of compressCode: `code` is reassigned by each
\* call, and line 193 returns whatever it holds when a call raises
RECURSIVE pymin_chain(_, _)
pymin_chain(code, stage) ==
    IF stage > Len(pymin_stages) THEN code
    ELSE IF pymin_stages[stage] \in raising THEN code
         ELSE pymin_chain(pymin_apply(stage, code), stage + 1)

\* compressCode(code, file_type)
compressCode(code, file_type) ==
    CASE file_type = "HTML" ->
            IF "htmlmin" \in raising THEN code ELSE htmlmin(code)
      [] file_type = "CSS" ->
            IF "cssmin" \in raising THEN code ELSE cssmin(code)
      [] file_type = "jsx" ->
            IF "jsmin" \in raising THEN code ELSE jsmin(code)
      [] file_type = "python" -> pymin_chain(code, 1)
      [] OTHER -> code

(***************************************************************************)
(* getFileType                                                             *)
(***************************************************************************)
\* file_types[file_type] for a key of the table
file_types_get(ext) ==
    file_types[CHOOSE i \in 1..Len(file_types) :
                   /\ file_types[i][1] = ext
                   /\ \A j \in 1..Len(file_types) : file_types[j][1] = ext => j <= i][2]

\* magic.Magic(mime=True).from_file: libmagic is not part of the program;
\* here a file holding a NUL byte and no byte-order mark is binary data
mime_from_file(bytes) ==
    IF /\ \E i \in 1..Len(bytes) : bytes[i] = 0
       /\ ~StartsWith(bytes, <<255, 254>>)
       /\ ~StartsWith(bytes, <<254, 255>>)
    THEN "application/octet-stream"
    ELSE "text/plain"

\* lines 127-135: the ordered heuristics on the first 1024 characters
sniff(content) ==
    IF Contains(content, <<60, 63, 112, 104, 112>>) THEN "php"
    ELSE IF \/ Contains(content, <<35, 33, 47, 117, 115, 114, 47, 98, 105, 110, 47,
                                   101, 110, 118, 32, 112, 121, 116, 104, 111, 110>>)
            \/ Contains(content, <<105, 109, 112, 111, 114, 116, 32>>)
         THEN "python"
    ELSE IF Contains(LowerText(content), <<60, 104, 116, 109, 108>>) THEN "HTML"
    ELSE IF Contains(content, <<123>>) /\ Contains(content, <<125>>) THEN "json"
    ELSE "text"

\* f.read(n)
read_prefix(text, n) == SubSeq(text, 1, IF Len(text) < n THEN Len(text) ELSE n)

\* getFileType(file_path); "None" is Python's None
getFileType(file_path) ==
    LET file_type == LowerStr(splitext(file_path))
    IN  IF InList(file_type, file_types_keys) THEN file_types_get(file_type)
        ELSE IF file_path \notin fs THEN "None"         \* from_file raises
        ELSE IF mime_from_file(Content(file_path)) # "text/plain" THEN "text"
        ELSE IF Utf8Raises(Content(file_path)) THEN "None"  \* f.read raises
        ELSE sniff(read_prefix(UniversalNewlines(Content(file_path)), 1024))

(***************************************************************************)
(* processFile                                                             *)
(***************************************************************************)
\* line 95: open(filename, "r", encoding='utf-8', errors="ignore") and
\* readlines(); with errors="ignore" no byte makes the read raise
primary_read(bytes) ==
    [raises |-> FALSE, text |-> UniversalNewlines(Utf8Ignore(bytes))]

\* lines 102-106: the read of the except UnicodeDecodeError branch
secondary_read(bytes) ==
    [raises |-> FALSE, text |-> UniversalNewlines(Utf16Ignore(bytes))]

\* lines 96-99 and 106-109: readlines, the per-line minification, the join
file_body(filename, text, minify) ==
    IF minify
    THEN LET lines == readlines(text)
         IN  Join([i \in 1..Len(lines) |->
                      compressCode(lines[i], getFileType(filename))])
    ELSE Join(readlines(text))

\* processFile(filename, extensions, minify): what future.result() gives.
\* raised: an exception leaves processFile (open() fails with an OSError,
\* which `except UnicodeDecodeError` does not catch); filename = <<>> is the
\* (None, None) of line 112.
processFile(filename, exts, minify) ==
    IF ~\E i \in 1..Len(exts) : EndsWith(filename, exts[i])
    THEN [raised |-> FALSE, filename |-> <<>>, contents |-> <<>>]
    ELSE IF filename \notin fs
    THEN [raised |-> TRUE, filename |-> <<>>, contents |-> <<>>]
    ELSE LET first == primary_read(Content(filename))
             second == secondary_read(Content(filename))
         IN  IF ~first.raises
             THEN [raised |-> FALSE, filename |-> filename,
                   contents |-> file_body(filename, first.text, minify)]
             ELSE IF ~second.raises
             THEN [raised |-> FALSE, filename |-> filename,
                   contents |-> file_body(filename, second.text, minify)]
             ELSE [raised |-> FALSE, filename |-> <<>>, contents |-> <<>>]

(***************************************************************************)
(* writeFileContents, writeFileToOutput                                    *)
(* What is written for one file is one record: the style of the block, its *)
(* header line, the language hint and the body as embedded.                *)
(***************************************************************************)
\* writeFileContents: the writes it makes, as a sequence of blocks
writeFileContents(file_contents, file_type, relative_path, output_format, minify) ==
    LET contents == IF minify THEN compressCode(file_contents, file_type)
                              ELSE file_contents
    IN  IF output_format = fmt_markdown \/ output_format = fmt_md
        THEN IF file_type = "txt"
             THEN <<[style |-> "quote", header |-> relative_path, tag |-> file_type,
                     body |-> Replace(contents, <<10>>, <<10, 62, 10, 62, 32>>)]>>
             ELSE <<[style |-> "fence", header |-> relative_path, tag |-> file_type,
                     body |-> Replace(contents, <<96, 96, 96>>,
                                      <<96, 32, 96, 32, 96>>)]>>
        ELSE IF output_format = fmt_html
        THEN <<[style |-> "pre", header |-> relative_path, tag |-> file_type,
                body |-> contents]>>
        ELSE IF output_format = fmt_txt
        THEN <<[style |-> "indent", header |-> relative_path, tag |-> file_type,
                body |-> Replace(contents, <<10>>, <<10, 9>>)]>>
        ELSE <<>>

\* line 166: open(file_path, "r", encoding='utf-8') and f.read(), strict
strict_read(bytes) ==
    [raises |-> Utf8Raises(bytes), text |-> UniversalNewlines(bytes)]

\* writeFileToOutput(file_path, output_file, minify, base_dir, output_format):
\* raised when an exception leaves it (open() of a missing file: only
\* UnicodeDecodeError is caught at line 169), else the blocks it wrote
writeFileToOutput(file_path, minify, base_dir, output_format) ==
    LET file_type == getFileType(file_path)
        relative_path == relpath(file_path, base_dir)
    IN  IF file_type = "None" THEN [raised |-> FALSE, written |-> <<>>]
        ELSE IF file_path \notin fs THEN [raised |-> TRUE, written |-> <<>>]
        ELSE IF ~strict_read(Content(file_path)).raises
        THEN [raised |-> FALSE,
              written |-> writeFileContents(strict_read(Content(file_path)).text,
                              file_type, relative_path, output_format, minify)]
        ELSE [raised |-> FALSE,
              written |-> writeFileContents(
                              UniversalNewlines(Utf16Ignore(Content(file_path))),
                              file_type, relative_path, output_format, minify)]

(***************************************************************************)
(* findFiles: discovery                                                    *)
(***************************************************************************)
\* the order in which the directories of the snapshot enumerate their
\* entries (os.listdir, os.walk): fixed for a snapshot
dir_order ==
    <<p_about, p_e, p_out, p_readme, p_u, p_x, p_y, p_z, p_w, p_git, p_extra>>

\* the directories of the tree, each before its subdirectories
all_dirs ==
    <<root, <<"r", "/", ".", "g", "i", "t">>, <<"r", "/", "d">>, <<"e">> >>

\* the files os.listdir / os.walk report in directory d
files_in(d) == SelectSeq(dir_order, LAMBDA p : p \in fs /\ dirname(p) = d)

\* the subdirectories os.walk reports in directory d
dirs_in(d) ==
    SelectSeq(all_dirs, LAMBDA dd :
        /\ dirname(dd) = d
        /\ \E p \in fs : StartsWith(p, dd \o <<"/">>))

\* line 216
output_file(args) == join(args.out, args.name \o <<".">> \o args.output_format)

\* ignore_files with line 217 left out
ignore_files_unextended(args) == args.ignore_files

\* line 217: ignore_files.append(os.path.basename(output_file))
ignore_files_of(args) == Append(args.ignore_files, basename(output_file(args)))

\* lines 219-221
extensions_of(args) ==
    SelectSeq(IF args.all_types THEN file_types_keys ELSE args.extensions,
              LAMBDA ext : ~InList(ext, args.exclude_extensions))

\* should_process_file, lines 223-227
should_process_file(file_path, ign, exts, all_types) ==
    /\ file_path \in fs
    /\ Len(Content(file_path)) # 0
    /\ ~InList(basename(file_path), ign)
    /\ (all_types \/ \E i \in 1..Len(exts) : EndsWith(file_path, exts[i]))

\* lines 231-233: os.walk top-down with dirs[:] pruned by ignore_dirs
RECURSIVE walk(_, _, _, _, _)
RECURSIVE walk_dirs(_, _, _, _, _)
walk(dirpath, ignore_dirs, ign, exts, all_types) ==
    SelectSeq(files_in(dirpath),
              LAMBDA p : should_process_file(p, ign, exts, all_types))
    \o walk_dirs(SelectSeq(dirs_in(dirpath),
                           LAMBDA dd : ~InList(basename(dd), ignore_dirs)),
                 ignore_dirs, ign, exts, all_types)

walk_dirs(dirs, ignore_dirs, ign, exts, all_types) ==
    IF dirs = <<>> THEN <<>>
    ELSE walk(Head(dirs), ignore_dirs, ign, exts, all_types)
         \o walk_dirs(Tail(dirs), ignore_dirs, ign, exts, all_types)

\* lines 229-238: all_files
discover(args, ign, exts) ==
    (IF args.recursive
     THEN walk(args.start_dir, args.ignore_dirs, ign, exts, args.all_types)
     ELSE SelectSeq(files_in(args.start_dir),
                    LAMBDA p : should_process_file(p, ign, exts, args.all_types)))
    \o SelectSeq(args.files,
                 LAMBDA p : should_process_file(p, ign, exts, args.all_types))

(***************************************************************************)
(* findFiles: aggregation and deduplication                                *)
(***************************************************************************)
\* d[k] = v on a dict kept as a sequence in insertion order
DictSet(d, k, v) ==
    IF \E i \in 1..Len(d) : d[i].path = k
    THEN [i \in 1..Len(d) |-> IF d[i].path = k THEN [path |-> k, contents |-> v]
                                               ELSE d[i]]
    ELSE Append(d, [path |-> k, contents |-> v])

\* line 257: the condition under which an entry is kept
keeps(final, entry, args) ==
    /\ \A j \in 1..Len(final) : final[j].contents # entry.contents
    /\ ~Contains(entry.path, args.name \o <<".">> \o args.output_format)

\* lines 255-258
RECURSIVE deduplicate(_, _, _)
deduplicate(found, final, args) ==
    IF found = <<>> THEN final
    ELSE deduplicate(Tail(found),
                     IF keeps(final, Head(found), args)
                     THEN Append(final, Head(found)) ELSE final,
                     args)

(***************************************************************************)
(* findFiles: rendering                                                    *)
(***************************************************************************)
\* f"# {name}\n\n"
title_block(name) == [style |-> "title", header |-> name, tag |-> "", body |-> <<>>]

\* what template.render(title=name, files=finalFiles) iterates over;
\* template.html is not part of the program
html_blocks(final) ==
    [i \in 1..Len(final) |->
        [style |-> "template", header |-> final[i].path, tag |-> "",
         body |-> final[i].contents]]

\* lines 273-276: md_content
pdf_blocks(final, start_dir) ==
    [i \in 1..Len(final) |->
        [style |-> "fence", header |-> relpath(final[i].path, start_dir),
         tag |-> getFileType(final[i].path), body |-> final[i].contents]]

\* the file found at the output path before the run
prior_output(args, files) ==
    IF output_file(args) \in files
    THEN [exists |-> TRUE,
          content |-> <<[style |-> "bytes", header |-> <<>>, tag |-> "",
                         body |-> Content(output_file(args))]>>]
    ELSE [exists |-> FALSE, content |-> <<>>]

(***************************************************************************)
(* Initial states: the arguments and the filesystem snapshot of a run.     *)
(***************************************************************************)
Snapshots == {S \in SUBSET PathUniverse : Cardinality(S) <= MaxFiles}

default_kwargs ==
    [Help |-> FALSE, repo |-> FALSE, branch |-> FALSE, start_dir |-> root,
     ignore_dirs |-> default_ignore_dirs, ignore_files |-> default_ignore_files,
     all_types |-> FALSE, extensions |-> default_extensions,
     exclude_extensions |-> <<>>, name |-> out_name, minify |-> FALSE,
     out |-> root, recursive |-> FALSE, files |-> <<p_extra>>,
     output_format |-> fmt_txt]

\* a run on a local directory
local_kwargs ==
    {[default_kwargs EXCEPT !.all_types = a, !.exclude_extensions = x,
                            !.minify = m, !.recursive = r, !.output_format = f] :
        a \in BOOLEAN, x \in {<<>>, << <<".", "t", "x", "t">> >>},
        m \in BOOLEAN, r \in BOOLEAN, f \in {fmt_txt, fmt_md, fmt_html, fmt_pdf}}

\* a run on a remote repository, and a run with --Help
remote_kwargs ==
    {[default_kwargs EXCEPT !.repo = TRUE, !.branch = b, !.out = cwd] :
        b \in BOOLEAN}

help_kwargs == [default_kwargs EXCEPT !.Help = TRUE]

InitRun ==
    /\ pc = "main"
    /\ raising = {}
    /\ ignore_files = <<>>
    /\ extensions = <<>>
    /\ all_files = <<>>
    /\ pending = {}
    /\ foundFiles = <<>>
    /\ finalFiles = <<>>
    /\ next_file = 0
    /\ logged = {}
    /\ fsChanges = 0
    /\ cc_code = <<>>
    /\ cc_type = "None"
    /\ cc_result = <<>>

Init ==
    /\ InitRun
    /\ \/ /\ kwargs \in local_kwargs \cup {help_kwargs}
          /\ fs \in Snapshots
          /\ repo_tree = {}
       \/ /\ kwargs \in remote_kwargs
          /\ fs = {}
          /\ repo_tree \in Snapshots
    /\ outFile = prior_output(kwargs, fs)

(***************************************************************************)
(* Actions.                                                                *)
(***************************************************************************)
pipeline_vars ==
    <<ignore_files, extensions, all_files, pending, foundFiles, finalFiles,
      next_file>>

compress_vars == <<cc_code, cc_type, cc_result>>

\* the run is over.  A --repo run removes its TemporaryDirectory on the way
\* out; fs keeps the tree the run has seen and the removal is reported.
finish(messages) ==
    /\ pc' = "done"
    /\ logged' = logged \cup messages
                 \cup (IF kwargs.repo THEN {"temporary directory removed"} ELSE {})
    /\ fs' = fs

\* main(), lines 310-315
main ==
    /\ pc = "main"
    /\ pc' = IF kwargs.Help THEN "done"
             ELSE IF kwargs.repo THEN "remote" ELSE "findFiles"
    /\ logged' = IF kwargs.Help THEN logged \cup {"help"} ELSE logged
    /\ UNCHANGED <<kwargs, fs, repo_tree, raising, pipeline_vars, outFile,
                   fsChanges, compress_vars>>

\* clone_repository(repo_url, branch, temp_dir) for each way git can end:
\* the tree it leaves in temp_dir, what it logs, and whether an exception
\* other than GitCommandError leaves it
clone_repository(outcome) ==
    CASE outcome = "cloned" ->
            [tree |-> repo_tree, log |-> {}, raised |-> FALSE]
      [] outcome = "clone GitCommandError" ->
            [tree |-> {}, log |-> {"Error cloning repository"}, raised |-> FALSE]
      [] outcome = "checkout GitCommandError" ->
            [tree |-> repo_tree, log |-> {"Error cloning repository"},
             raised |-> FALSE]
      [] OTHER ->
            [tree |-> {}, log |-> {}, raised |-> TRUE]

clone_outcomes ==
    {"cloned", "clone GitCommandError", "other exception"}
    \cup (IF kwargs.branch THEN {"checkout GitCommandError"} ELSE {})

\* process_remote_repository, lines 82-90, up to the call of findFiles
process_remote_repository ==
    /\ pc = "remote"
    /\ \E outcome \in clone_outcomes :
          LET cloned == clone_repository(outcome)
          IN  IF cloned.raised
              THEN /\ pc' = "done"
                   /\ logged' = logged \cup {"An error occurred",
                                             "temporary directory removed"}
                   /\ fs' = cloned.tree
              ELSE /\ pc' = "findFiles"
                   /\ logged' = logged \cup cloned.log
                   /\ fs' = cloned.tree
    /\ UNCHANGED <<kwargs, repo_tree, raising, pipeline_vars, outFile,
                   fsChanges, compress_vars>>

\* findFiles, lines 202-243: the arguments, the candidates, the submissions
findFiles ==
    /\ pc = "findFiles"
    /\ ignore_files' = ignore_files_of(kwargs)
    /\ extensions' = extensions_of(kwargs)
    /\ all_files' = discover(kwargs, ignore_files_of(kwargs), extensions_of(kwargs))
    /\ pending' = 1..Len(all_files')
    /\ pc' = "as_completed"
    /\ UNCHANGED <<kwargs, fs, repo_tree, raising, foundFiles, finalFiles,
                   next_file, outFile, logged, fsChanges, compress_vars>>

\* lines 244-253: as_completed yields one more future, in any order
future_completed ==
    /\ pc = "as_completed"
    /\ \E i \in pending :
          LET result == processFile(all_files[i], extensions, kwargs.minify)
          IN  /\ pending' = pending \ {i}
              /\ foundFiles' =
                    IF ~result.raised /\ result.filename # <<>>
                    THEN DictSet(foundFiles, result.filename, result.contents)
                    ELSE foundFiles
              /\ logged' = IF result.raised
                           THEN logged \cup {"Error processing file"}
                           ELSE logged
    /\ UNCHANGED <<pc, kwargs, fs, repo_tree, raising, ignore_files, extensions,
                   all_files, finalFiles, next_file, outFile, fsChanges,
                   compress_vars>>

\* lines 255-258, once every future has been yielded
deduplicate_files ==
    /\ pc = "as_completed"
    /\ pending = {}
    /\ finalFiles' = deduplicate(foundFiles, <<>>, kwargs)
    /\ pc' = "render"
    /\ UNCHANGED <<kwargs, fs, repo_tree, raising, ignore_files, extensions,
                   all_files, pending, foundFiles, next_file, outFile, logged,
                   fsChanges, compress_vars>>

\* lines 262-263 and 283: open(output_file, "w") truncates; markdown gets
\* its title.  The open fails when the output directory is not writable.
open_output ==
    /\ pc = "render"
    /\ kwargs.output_format \in {fmt_markdown, fmt_md, fmt_txt}
    /\ \E writable \in BOOLEAN :
          IF writable
          THEN /\ outFile' =
                    [exists |-> TRUE,
                     content |-> IF kwargs.output_format = fmt_txt THEN <<>>
                                 ELSE <<title_block(kwargs.name)>>]
               /\ next_file' = 1
               /\ pc' = "writing"
               /\ UNCHANGED <<fs, logged>>
          ELSE /\ finish({"Error writing output file"})
               /\ UNCHANGED <<outFile, next_file>>
    /\ UNCHANGED <<kwargs, repo_tree, raising, ignore_files, extensions, all_files,
                   pending, foundFiles, finalFiles, fsChanges, compress_vars>>

\* lines 264-265 and 284-285: one iteration of the loop over finalFiles; an
\* exception leaving writeFileToOutput closes the file and ends at line 289
write_file ==
    /\ pc = "writing"
    /\ next_file <= Len(finalFiles)
    /\ LET result == writeFileToOutput(finalFiles[next_file].path, kwargs.minify,
                                       kwargs.start_dir, kwargs.output_format)
       IN  IF result.raised
           THEN /\ finish({"Error writing output file"})
                /\ UNCHANGED <<outFile, next_file>>
           ELSE /\ outFile' = [outFile EXCEPT !.content = @ \o result.written]
                /\ next_file' = next_file + 1
                /\ UNCHANGED <<pc, fs, logged>>
    /\ UNCHANGED <<kwargs, repo_tree, raising, ignore_files, extensions, all_files,
                   pending, foundFiles, finalFiles, fsChanges, compress_vars>>

\* lines 286-289 after the loop: the file is closed and reported.  What
\* os.startfile does then (it exists on Windows only) changes no state.
close_output ==
    /\ pc = "writing"
    /\ next_file > Len(finalFiles)
    /\ finish({"Output file created"})
    /\ UNCHANGED <<kwargs, repo_tree, raising, pipeline_vars, outFile, fsChanges,
                   compress_vars>>

\* lines 267-271 and 286-289
render_html ==
    /\ pc = "render"
    /\ kwargs.output_format = fmt_html
    /\ \E outcome \in {"written", "no template", "not writable", "render raises"} :
          CASE outcome = "written" ->
                  /\ outFile' = [exists |-> TRUE,
                                 content |-> <<title_block(kwargs.name)>>
                                             \o html_blocks(finalFiles)]
                  /\ finish({"Output file created"})
            [] outcome = "render raises" ->
                  /\ outFile' = [exists |-> TRUE, content |-> <<>>]
                  /\ finish({"Error writing output file"})
            [] OTHER ->
                  /\ UNCHANGED outFile
                  /\ finish({"Error writing output file"})
    /\ UNCHANGED <<kwargs, repo_tree, raising, pipeline_vars, fsChanges,
                   compress_vars>>

\* lines 273-281 and 286-289: pdfkit writes the file or raises
render_pdf ==
    /\ pc = "render"
    /\ kwargs.output_format = fmt_pdf
    /\ \E converted \in BOOLEAN :
          IF converted
          THEN /\ outFile' = [exists |-> TRUE,
                              content |-> <<title_block(kwargs.name)>>
                                          \o pdf_blocks(finalFiles, kwargs.start_dir)]
               /\ finish({"Output file created"})
          ELSE /\ UNCHANGED outFile
               /\ finish({"Error writing output file"})
    /\ UNCHANGED <<kwargs, repo_tree, raising, pipeline_vars, fsChanges,
                   compress_vars>>

\* another process removes a candidate file while the run is going on
unlink ==
    /\ pc \in {"as_completed", "render", "writing"}
    /\ fsChanges < MaxFsChanges
    /\ \E p \in fs :
          /\ InList(p, all_files)
          /\ fs' = fs \ {p}
    /\ fsChanges' = fsChanges + 1
    /\ UNCHANGED <<pc, kwargs, repo_tree, raising, pipeline_vars, outFile, logged,
                   compress_vars>>

Next ==
    \/ main
    \/ process_remote_repository
    \/ findFiles
    \/ future_completed
    \/ deduplicate_files
    \/ open_output
    \/ write_file
    \/ close_output
    \/ render_html
    \/ render_pdf
    \/ unlink

Spec == Init /\ [][Next]_vars

(***************************************************************************)
(* compressCode on its own: one call on a text, a tag and a set of raising *)
(* minifier calls.                                                         *)
(***************************************************************************)
minifier_calls ==
    {"htmlmin", "cssmin", "jsmin"} \cup {pymin_stages[i] : i \in 1..Len(pymin_stages)}

sample_codes ==
    {<<97>>, <<97, 32, 98>>, <<97, 32, 35, 99>>, <<32, 97>>,
     <<97, 10, 10, 98>>, <<35, 99, 10, 97, 32, 98>>}

sample_types == {"HTML", "CSS", "jsx", "python", "txt", "json", "None"}

InitCompress ==
    /\ pc = "compress"
    /\ kwargs = default_kwargs
    /\ fs = {}
    /\ repo_tree = {}
    /\ raising \in {{}} \cup {{c} : c \in minifier_calls}
    /\ ignore_files = <<>>
    /\ extensions = <<>>
    /\ all_files = <<>>
    /\ pending = {}
    /\ foundFiles = <<>>
    /\ finalFiles = <<>>
    /\ next_file = 0
    /\ outFile = [exists |-> FALSE, content |-> <<>>]
    /\ logged = {}
    /\ fsChanges = 0
    /\ cc_code \in sample_codes
    /\ cc_type \in sample_types
    /\ cc_result = <<>>

call_compressCode ==
    /\ pc = "compress"
    /\ cc_result' = compressCode(cc_code, cc_type)
    /\ pc' = "compressed"
    /\ UNCHANGED <<kwargs, fs, repo_tree, raising, pipeline_vars, outFile, logged,
                   fsChanges, cc_code, cc_type>>

NextCompress == call_compressCode

SpecCompress == InitCompress /\ [][NextCompress]_vars

(***************************************************************************)
(* Vocabulary of the properties.                                           *)
(***************************************************************************)
found_paths == {foundFiles[i].path : i \in 1..Len(foundFiles)}

final_paths == {finalFiles[i].path : i \in 1..Len(finalFiles)}

\* the headers of the file blocks the artifact holds
written_headers ==
    {outFile.content[i].header :
        i \in {j \in 1..Len(outFile.content) :
                  outFile.content[j].style \notin {"title", "bytes"}}}

\* f"{name}.{output_format}", the base name of the artifact
own_name == kwargs.name \o <<".">> \o kwargs.output_format

\* the characters of the modelled paths in code-point order
ascii_order ==
    <<".", "/", "1">> \o UpperChars \o <<"_">> \o LowerChars

code_point(c) == CHOOSE k \in 1..Len(ascii_order) : ascii_order[k] = c

\* a < b on Python strings
RECURSIVE lex_less(_, _)
lex_less(a, b) ==
    IF b = <<>> THEN FALSE
    ELSE IF a = <<>> THEN TRUE
    ELSE IF a[1] = b[1] THEN lex_less(Tail(a), Tail(b))
    ELSE code_point(a[1]) < code_point(b[1])

\* the entries the walk of the run reaches: the children of start_dir, with
\* --recursive everything below it outside the ignored directories, and the
\* --files
in_scope(p) ==
    \/ InList(p, kwargs.files)
    \/ IF kwargs.recursive
       THEN /\ StartsWith(p, kwargs.start_dir \o <<"/">>)
            /\ \A k \in 1..Len(all_dirs) :
                  (all_dirs[k] # kwargs.start_dir
                   /\ StartsWith(p, all_dirs[k] \o <<"/">>))
                  => ~InList(basename(all_dirs[k]), kwargs.ignore_dirs)
       ELSE dirname(p) = kwargs.start_dir

\* extensions - excludeExtensions, as a set
effective_extensions ==
    {kwargs.extensions[i] : i \in 1..Len(kwargs.extensions)}
    \ {kwargs.exclude_extensions[i] : i \in 1..Len(kwargs.exclude_extensions)}

\* the exclusion rule for files, in the words of the design
excluded(p) ==
    \/ Len(Content(p)) = 0
    \/ basename(p) \in {default_ignore_files[i] : i \in 1..Len(default_ignore_files)}
                       \cup {basename(output_file(kwargs))}
    \/ (~kwargs.all_types /\ splitext(p) \notin effective_extensions)

\* the futures are yielded in submission order
RECURSIVE collect_in_order(_, _)
collect_in_order(files, found) ==
    IF files = <<>> THEN found
    ELSE LET result == processFile(Head(files), extensions, kwargs.minify)
         IN  collect_in_order(Tail(files),
                 IF ~result.raised /\ result.filename # <<>>
                 THEN DictSet(found, result.filename, result.contents)
                 ELSE found)

\* the blocks the loop over `final` writes when no call raises
RECURSIVE write_all(_)
write_all(final) ==
    IF final = <<>> THEN <<>>
    ELSE writeFileToOutput(Head(final).path, kwargs.minify, kwargs.start_dir,
                           kwargs.output_format).written
         \o write_all(Tail(final))

\* the complete artifact for the deduplicated set `final`
artifact_of(final) ==
    IF kwargs.output_format = fmt_txt THEN write_all(final)
    ELSE IF kwargs.output_format \in {fmt_md, fmt_markdown}
    THEN <<title_block(kwargs.name)>> \o write_all(final)
    ELSE IF kwargs.output_format = fmt_html
    THEN <<title_block(kwargs.name)>> \o html_blocks(final)
    ELSE <<title_block(kwargs.name)>> \o pdf_blocks(final, kwargs.start_dir)

\* the artifact of the run whose futures complete in submission order
reference_artifact ==
    artifact_of(deduplicate(collect_in_order(all_files, <<>>), <<>>, kwargs))

\* the paths of the aggregation set with the contents of entry i
same_body(i) ==
    {foundFiles[j].path : j \in {k \in 1..Len(foundFiles) :
                                    foundFiles[k].contents = foundFiles[i].contents}}

\* the transform registered for a tag, run with no call raising
registered_transform(file_type, code) ==
    CASE file_type = "HTML" -> htmlmin(code)
      [] file_type = "CSS" -> cssmin(code)
      [] file_type = "jsx" -> jsmin(code)
      [] file_type = "python" ->
            join_multiline_pairs(fix_empty_methods(dedent(reduce_operators(
                remove_blank_lines(remove_comments_and_docstrings(code))))))
      [] OTHER -> code

\* the minifier calls the transform of a tag makes
calls_of(file_type) ==
    CASE file_type = "HTML" -> {"htmlmin"}
      [] file_type = "CSS" -> {"cssmin"}
      [] file_type = "jsx" -> {"jsmin"}
      [] file_type = "python" -> {pymin_stages[i] : i \in 1..Len(pymin_stages)}
      [] OTHER -> {}

(***************************************************************************)
(* Properties.                                                             *)
(***************************************************************************)
\* C1: of the entries of the aggregation set that share a body (none of them
\* hit by the artifact-name test of line 257), the deduplicated set keeps
\* exactly one, the one with the lexically first path, whatever order the
\* futures completed in.
DedupKeepsLexicallyFirst ==
    pc = "render" =>
        \A i \in 1..Len(foundFiles) :
            (/\ Cardinality(same_body(i)) >= 2
             /\ \A p \in same_body(i) : ~Contains(p, own_name))
            => /\ Cardinality(final_paths \cap same_body(i)) = 1
               /\ \A p \in final_paths \cap same_body(i) :
                     \A q \in same_body(i) : q = p \/ lex_less(p, q)

\* C2: with the filesystem unchanged during the run, a run that reports its
\* artifact as created has written the artifact of the run whose futures
\* complete in submission order; so any two such runs write the same one.
Determinism ==
    (pc = "done" /\ "Output file created" \in logged /\ fsChanges = 0)
    => outFile.content = reference_artifact

\* C3: the base name of the artifact is in ignore_files from line 217 on, and
\* no path with that base name is a candidate, is extracted, is kept by the
\* deduplication or is rendered.
SelfExclusion ==
    /\ pc \in {"as_completed", "render", "writing"}
       => InList(basename(output_file(kwargs)), ignore_files)
    /\ \A p \in {all_files[i] : i \in 1..Len(all_files)}
                \cup found_paths \cup final_paths \cup written_headers :
          basename(p) # basename(output_file(kwargs))

\* C3, witness: a run on a tree holding a non-empty file with the artifact's
\* base name and an extension the run accepts has rendered another file.
SelfExclusionWitness ==
    /\ pc = "done"
    /\ "Output file created" \in logged
    /\ written_headers # {}
    /\ \E p \in fs :
          /\ basename(p) = basename(output_file(kwargs))
          /\ in_scope(p)
          /\ Len(Content(p)) # 0
          /\ \E i \in 1..Len(extensions) : EndsWith(p, extensions[i])

\* C4: with the filesystem unchanged, a file the walk reaches is a candidate
\* and is extracted exactly when the exclusion rule does not exclude it.
InclusionRule ==
    (pc = "render" /\ fsChanges = 0)
    => \A p \in fs :
          in_scope(p)
          => /\ InList(p, all_files) <=> ~excluded(p)
             /\ p \in found_paths <=> ~excluded(p)

\* C5: once clone_repository has failed, findFiles is never invoked (not
\* even its line 217 runs) and no artifact is written.
CheckoutFailureIsFatal ==
    "Error cloning repository" \in logged
    => /\ pc \notin {"as_completed", "render", "writing"}
       /\ ignore_files = <<>>
       /\ "Output file created" \notin logged

\* C6: when the rendering loop has begun and the run is over, every entry of
\* the deduplicated set whose file can still be read and classified has its
\* block in the artifact.
PerFileSoftFailure ==
    (pc = "done" /\ next_file >= 1)
    => \A i \in 1..Len(finalFiles) :
          (finalFiles[i].path \in fs /\ getFileType(finalFiles[i].path) # "None")
          => relpath(finalFiles[i].path, kwargs.start_dir) \in written_headers

\* C7: when a run that began its rendering loop (text and markdown formats)
\* is over, however it ended, the file at the output path is as it was
\* before the run or is a complete artifact: one holding the block of every
\* entry of the deduplicated set that can be read and classified.
OutputAtomicity ==
    (pc = "done" /\ next_file >= 1)
    => \/ outFile = prior_output(kwargs, fs)
       \/ /\ outFile.exists
          /\ \A i \in 1..Len(finalFiles) :
                (/\ finalFiles[i].path \in fs
                 /\ getFileType(finalFiles[i].path) # "None")
                => relpath(finalFiles[i].path, kwargs.start_dir)
                       \in written_headers

\* C8: with the filesystem unchanged, an extracted file that does not decode
\* as UTF-8 has the body of its UTF-16 decoding.
EncodingFallback ==
    (pc = "render" /\ fsChanges = 0)
    => \A i \in 1..Len(foundFiles) :
          Utf8Raises(Content(foundFiles[i].path))
          => foundFiles[i].contents =
                file_body(foundFiles[i].path,
                          UniversalNewlines(Utf16Ignore(Content(foundFiles[i].path))),
                          kwargs.minify)

\* C9: compressCode returns the input when a call of the tag's transform
\* raises or the tag has no transform, and the transform's result otherwise.
GracefulMinification ==
    pc = "compressed"
    => cc_result = IF calls_of(cc_type) \cap raising # {}
                   THEN cc_code
                   ELSE registered_transform(cc_type, cc_code)

\* C10: after the deduplication every body of the aggregation set is the
\* body of exactly one entry of the deduplicated set.
DedupDropsOnlyDuplicates ==
    pc = "render"
    => \A i \in 1..Len(foundFiles) :
          Cardinality({k \in 1..Len(finalFiles) :
                          finalFiles[k].contents = foundFiles[i].contents}) = 1

====
